---- MODULE Spec2Model ----
(***************************************************************************)
(* grepverse (src/src/main.rs): the line scanners of search_file.          *)
(*                                                                         *)
(* A file is a sequence of bytes.  A byte is a one-character string, with  *)
(* "LF" standing for b'\n', "CR" for b'\r' and "0xFF" for a byte that is   *)
(* not valid UTF-8.  A record is the tuple (line_number, line, is_match)   *)
(* of the code.                                                            *)
(***************************************************************************)
EXTENDS Integers, Sequences, FiniteSets, TLC

\* Bounds of the model: files of every byte sequence up to MaxLen bytes, files
\* of up to MaxLines terminated lines, context sizes up to MaxContext, up to
\* MaxThreads rayon threads; files of more than MaxMapped bytes, or cut into
\* more than MaxChunks chunks, are explored under search_file_buffered only.
MaxLen == 3
MaxLines == 6
MaxContext == 2
MaxThreads == 3
MaxMapped == 6
MaxChunks == 4
MaxMatcherLen == 3

LF == "LF"
CR == "CR"
BadByte == "0xFF"

\* The bytes the enumerated files are made of.
Bytes == {"m", "x", LF, BadByte}

VARIABLES
    buf,            \* the bytes of the file being searched
    matcher,        \* the arguments create_matcher was called with
    context_lines,  \* -C NUM
    scanner,        \* "none", "buffered", "mmap" or "reader": the scanner main chose
    pc,             \* "start", "scan", "done", "counted", "error" or "panic"
    reader,         \* search_file_buffered: bytes consumed and the loop's locals
    chunks,         \* search_file_mmap: the slices par_chunks hands out
    workers,        \* search_file_mmap: search_chunk's locals, per chunk
    finished,       \* search_file_mmap: chunk ordinals in order of completion
    out,            \* the Vec search_file returned
    num_threads,    \* rayon::current_num_threads() as search_file_mmap read it
    stdin,          \* search_reader: bytes consumed and the loop's locals
    total_matches   \* main: the count printed under --count

vars == <<buf, matcher, context_lines, scanner, pc, reader, chunks, workers, finished, out,
          num_threads, stdin, total_matches>>

--------------------------------------------------------------------------
(* Helpers on sequences *)

Min(a, b) == IF a < b THEN a ELSE b

AllSeqs(S, n) == UNION {[1..k -> S] : k \in 0..n}

RECURSIVE Flatten(_)
Flatten(ss) == IF ss = <<>> THEN <<>> ELSE Head(ss) \o Flatten(Tail(ss))

\* Positions of LF in b that are > from.
LFAfter(b, from) == {j \in (from + 1)..Len(b) : b[j] = LF}

SetMin(S) == CHOOSE x \in S : \A y \in S : x <= y

--------------------------------------------------------------------------
(* create_matcher *)

Lower(ch) ==
    CASE ch = "M" -> "m"
      [] ch = "A" -> "a"
      [] ch = "T" -> "t"
      [] ch = "C" -> "c"
      [] ch = "H" -> "h"
      [] ch = "X" -> "x"
      [] OTHER -> ch

to_lowercase(s) == [i \in 1..Len(s) |-> Lower(s[i])]

\* str::contains
contains(line, pat) ==
    \E i \in 0..(Len(line) - Len(pat)) : SubSeq(line, i + 1, i + Len(pat)) = pat

\* create_matcher whose last closure forgets invert_match.
create_matcher_invert_forgotten(m, line) ==
    IF m.use_regex \/ m.word_regexp
    THEN LET hit == IF m.ignore_case
                    THEN contains(to_lowercase(line), to_lowercase(m.pattern))
                    ELSE contains(line, m.pattern)
         IN  hit # m.invert_match
    ELSE IF m.fixed_strings
    THEN LET pattern == IF m.ignore_case THEN to_lowercase(m.pattern) ELSE m.pattern
             l == IF m.ignore_case THEN to_lowercase(line) ELSE line
         IN  contains(l, pattern) # m.invert_match
    ELSE LET pattern == IF m.ignore_case THEN to_lowercase(m.pattern) ELSE m.pattern
             l == IF m.ignore_case THEN to_lowercase(line) ELSE line
         IN  contains(l, pattern)

\* The closure create_matcher returns, applied to line.  Patterns are
\* literal text, for which Regex::is_match is a substring search.
create_matcher(m, line) ==
    IF m.use_regex \/ m.word_regexp
    THEN LET hit == IF m.ignore_case
                    THEN contains(to_lowercase(line), to_lowercase(m.pattern))
                    ELSE contains(line, m.pattern)
         IN  hit # m.invert_match
    ELSE IF m.fixed_strings
    THEN LET pattern == IF m.ignore_case THEN to_lowercase(m.pattern) ELSE m.pattern
             l == IF m.ignore_case THEN to_lowercase(line) ELSE line
         IN  contains(l, pattern) # m.invert_match
    ELSE LET pattern == IF m.ignore_case THEN to_lowercase(m.pattern) ELSE m.pattern
             l == IF m.ignore_case THEN to_lowercase(line) ELSE line
         IN  contains(l, pattern) # m.invert_match

PlainMatcher(pat) ==
    [pattern |-> pat, use_regex |-> FALSE, ignore_case |-> FALSE,
     word_regexp |-> FALSE, fixed_strings |-> FALSE, invert_match |-> FALSE]

\* std::str::from_utf8(..).is_ok() / what BufRead::lines accepts
valid_utf8(line) == \A i \in 1..Len(line) : line[i] # BadByte

--------------------------------------------------------------------------
(* The context buffer of search_file_buffered *)

\* buffered_aggregate without the flush of lines 291-294.
buffered_aggregate_no_flush_on_match(s, rec, c) ==
    LET s0 == [s EXCEPT !.fed = Append(@, rec)] IN
    IF rec[3] \/ s.context_buffer # <<>>
    THEN LET pushed == Append(s.context_buffer, rec)
             over == Len(pushed) > c * 2 + 1
             removed == IF over THEN Tail(pushed) ELSE pushed
             flush1 == over /\ Head(pushed)[3]
         IN  [s0 EXCEPT !.context_buffer = IF flush1 THEN <<>> ELSE removed,
                        !.results = IF flush1 THEN @ \o removed ELSE @,
                        !.blocks = IF flush1 THEN Append(@, removed) ELSE @]
    ELSE s0

\* s has context_buffer, results and the ghost fields blocks (one entry per
\* results.extend) and fed (the records the loop body has seen).
buffered_aggregate(s, rec, c) ==
    LET s0 == [s EXCEPT !.fed = Append(@, rec)] IN
    IF rec[3] \/ s.context_buffer # <<>>
    THEN LET pushed == Append(s.context_buffer, rec)
             over == Len(pushed) > c * 2 + 1
             removed == IF over THEN Tail(pushed) ELSE pushed
             flush1 == over /\ Head(pushed)[3]
             res1 == IF flush1 THEN s.results \o removed ELSE s.results
             blk1 == IF flush1 THEN Append(s.blocks, removed) ELSE s.blocks
             cb1 == IF flush1 THEN <<>> ELSE removed
             flush2 == rec[3] /\ Len(cb1) = c + 1
         IN  [s0 EXCEPT !.context_buffer = IF flush2 THEN <<>> ELSE cb1,
                        !.results = IF flush2 THEN res1 \o cb1 ELSE res1,
                        !.blocks = IF flush2 THEN Append(blk1, cb1) ELSE blk1]
    ELSE s0

\* The flush after the loop.
buffered_final(s) ==
    IF s.context_buffer # <<>>
    THEN [s EXCEPT !.results = @ \o s.context_buffer,
                   !.blocks = Append(@, s.context_buffer)]
    ELSE s

--------------------------------------------------------------------------
(* search_file_buffered *)

BufferedInit ==
    [pos |-> 0, line_number |-> 0, context_buffer |-> <<>>, results |-> <<>>,
     blocks |-> <<>>, fed |-> <<>>, err |-> FALSE]

\* What one call of next() on reader.lines() consumes: through the next LF,
\* or to the end of the file.
line_end(b, pos) ==
    IF LFAfter(b, pos) = {} THEN Len(b) ELSE SetMin(LFAfter(b, pos))

\* The String that lines() yields for the raw bytes: the LF is removed, and
\* a CR before it.
strip_terminator(raw) ==
    IF raw # <<>> /\ raw[Len(raw)] = LF
    THEN LET l == SubSeq(raw, 1, Len(raw) - 1)
         IN  IF l # <<>> /\ l[Len(l)] = CR THEN SubSeq(l, 1, Len(l) - 1) ELSE l
    ELSE raw

\* One iteration of the for loop.
buffered_line(s, b, m, c) ==
    LET end == line_end(b, s.pos)
        raw == SubSeq(b, s.pos + 1, end)
        line == strip_terminator(raw)
        s1 == [s EXCEPT !.pos = end, !.line_number = @ + 1]
    IN  IF ~valid_utf8(raw)
        THEN [s1 EXCEPT !.err = TRUE]
        ELSE buffered_aggregate(s1, <<s1.line_number, line, create_matcher(m, line)>>, c)

RECURSIVE buffered_run(_, _, _, _)
buffered_run(s, b, m, c) ==
    IF s.err THEN s
    ELSE IF s.pos < Len(b) THEN buffered_run(buffered_line(s, b, m, c), b, m, c)
    ELSE buffered_final(s)

\* The whole function: [ok, results].
search_file_buffered(b, m, c) ==
    LET s == buffered_run(BufferedInit, b, m, c)
    IN  [ok |-> ~s.err, results |-> IF s.err THEN <<>> ELSE s.results]

--------------------------------------------------------------------------
(* search_chunk *)

ChunkInit ==
    [line_number |-> 1, line_start |-> 0, context_buffer |-> <<>>, results |-> <<>>,
     blocks |-> <<>>, fed |-> <<>>, done |-> FALSE]

\* chunk_aggregate without the clear() of line 356.
chunk_aggregate_no_clear(w, rec, c) ==
    LET w0 == [w EXCEPT !.fed = Append(@, rec)] IN
    IF rec[3] \/ w.context_buffer # <<>>
    THEN LET pushed == Append(w.context_buffer, rec)
             over == Len(pushed) > c * 2 + 1
             removed == IF over THEN Tail(pushed) ELSE pushed
             flush1 == over /\ Head(pushed)[3]
             res1 == IF flush1 THEN w.results \o removed ELSE w.results
             blk1 == IF flush1 THEN Append(w.blocks, removed) ELSE w.blocks
             cb1 == IF flush1 THEN <<>> ELSE removed
             flush2 == rec[3] /\ Len(cb1) = c + 1
         IN  [w0 EXCEPT !.context_buffer = cb1,
                        !.results = IF flush2 THEN res1 \o cb1 ELSE res1,
                        !.blocks = IF flush2 THEN Append(blk1, cb1) ELSE blk1]
    ELSE w0

\* chunk_aggregate that buffers every line, also with no window open.
chunk_aggregate_always_push(w, rec, c) ==
    LET w0 == [w EXCEPT !.fed = Append(@, rec)]
        pushed == Append(w.context_buffer, rec)
        over == Len(pushed) > c * 2 + 1
        removed == IF over THEN Tail(pushed) ELSE pushed
        flush1 == over /\ Head(pushed)[3]
        res1 == IF flush1 THEN w.results \o removed ELSE w.results
        blk1 == IF flush1 THEN Append(w.blocks, removed) ELSE w.blocks
        cb1 == IF flush1 THEN <<>> ELSE removed
        flush2 == rec[3] /\ Len(cb1) = c + 1
    IN  [w0 EXCEPT !.context_buffer = IF flush2 THEN <<>> ELSE cb1,
                   !.results = IF flush2 THEN res1 \o cb1 ELSE res1,
                   !.blocks = IF flush2 THEN Append(blk1, cb1) ELSE blk1]

chunk_aggregate(w, rec, c) ==
    LET w0 == [w EXCEPT !.fed = Append(@, rec)] IN
    IF rec[3] \/ w.context_buffer # <<>>
    THEN LET pushed == Append(w.context_buffer, rec)
             over == Len(pushed) > c * 2 + 1
             removed == IF over THEN Tail(pushed) ELSE pushed
             flush1 == over /\ Head(pushed)[3]
             res1 == IF flush1 THEN w.results \o removed ELSE w.results
             blk1 == IF flush1 THEN Append(w.blocks, removed) ELSE w.blocks
             cb1 == IF flush1 THEN <<>> ELSE removed
             flush2 == rec[3] /\ Len(cb1) = c + 1
         IN  [w0 EXCEPT !.context_buffer = IF flush2 THEN <<>> ELSE cb1,
                        !.results = IF flush2 THEN res1 \o cb1 ELSE res1,
                        !.blocks = IF flush2 THEN Append(blk1, cb1) ELSE blk1]
    ELSE w0

\* The iterations of the byte loop from line_start through the next b'\n'.
chunk_line(w, chunk, m, c) ==
    LET i == SetMin(LFAfter(chunk, w.line_start))
        line == SubSeq(chunk, w.line_start + 1, i - 1)
        w1 == IF valid_utf8(line)
              THEN chunk_aggregate(w, <<w.line_number, line, create_matcher(m, line)>>, c)
              ELSE w
    IN  [w1 EXCEPT !.line_number = @ + 1, !.line_start = i]

\* The bytes after the last b'\n' change nothing; then the flush after the loop.
chunk_final(w) ==
    IF w.context_buffer # <<>>
    THEN [w EXCEPT !.results = @ \o w.context_buffer,
                   !.blocks = Append(@, w.context_buffer),
                   !.done = TRUE]
    ELSE [w EXCEPT !.done = TRUE]

RECURSIVE chunk_run(_, _, _, _)
chunk_run(w, chunk, m, c) ==
    IF LFAfter(chunk, w.line_start) # {}
    THEN chunk_run(chunk_line(w, chunk, m, c), chunk, m, c)
    ELSE chunk_final(w)

search_chunk(chunk, m, c) == chunk_run(ChunkInit, chunk, m, c).results

--------------------------------------------------------------------------
(* search_reader *)

\* results holds the records handed to print_match, in order.
ReaderInit ==
    [pos |-> 0, line_number |-> 0, context_buffer |-> <<>>, results |-> <<>>,
     blocks |-> <<>>, fed |-> <<>>, err |-> FALSE]

\* reader_aggregate with the overflow test of line 417 off by one.
reader_aggregate_late_overflow(r, rec, c) ==
    LET r0 == [r EXCEPT !.fed = Append(@, rec)] IN
    IF rec[3] \/ r.context_buffer # <<>>
    THEN LET pushed == Append(r.context_buffer, rec)
             over == Len(pushed) > c * 2 + 2
             removed == IF over THEN Tail(pushed) ELSE pushed
             flush1 == over /\ Head(pushed)[3]
             res1 == IF flush1 THEN r.results \o removed ELSE r.results
             blk1 == IF flush1 THEN Append(r.blocks, removed) ELSE r.blocks
             cb1 == IF flush1 THEN <<>> ELSE removed
             flush2 == rec[3] /\ Len(cb1) = c + 1
         IN  [r0 EXCEPT !.context_buffer = IF flush2 THEN <<>> ELSE cb1,
                        !.results = IF flush2 THEN res1 \o cb1 ELSE res1,
                        !.blocks = IF flush2 THEN Append(blk1, cb1) ELSE blk1]
    ELSE r0

\* reader_aggregate that prints at the match only what came before it.
reader_aggregate_flush_without_match(r, rec, c) ==
    LET r0 == [r EXCEPT !.fed = Append(@, rec)] IN
    IF rec[3] \/ r.context_buffer # <<>>
    THEN LET pushed == Append(r.context_buffer, rec)
             over == Len(pushed) > c * 2 + 1
             removed == IF over THEN Tail(pushed) ELSE pushed
             flush1 == over /\ Head(pushed)[3]
             res1 == IF flush1 THEN r.results \o removed ELSE r.results
             blk1 == IF flush1 THEN Append(r.blocks, removed) ELSE r.blocks
             cb1 == IF flush1 THEN <<>> ELSE removed
             flush2 == rec[3] /\ Len(cb1) = c + 1
         IN  [r0 EXCEPT !.context_buffer = IF flush2 THEN <<>> ELSE cb1,
                        !.results = IF flush2 THEN res1 \o r.context_buffer ELSE res1,
                        !.blocks = IF flush2 THEN Append(blk1, r.context_buffer) ELSE blk1]
    ELSE r0

reader_aggregate(r, rec, c) ==
    LET r0 == [r EXCEPT !.fed = Append(@, rec)] IN
    IF rec[3] \/ r.context_buffer # <<>>
    THEN LET pushed == Append(r.context_buffer, rec)
             over == Len(pushed) > c * 2 + 1
             removed == IF over THEN Tail(pushed) ELSE pushed
             flush1 == over /\ Head(pushed)[3]
             res1 == IF flush1 THEN r.results \o removed ELSE r.results
             blk1 == IF flush1 THEN Append(r.blocks, removed) ELSE r.blocks
             cb1 == IF flush1 THEN <<>> ELSE removed
             flush2 == rec[3] /\ Len(cb1) = c + 1
         IN  [r0 EXCEPT !.context_buffer = IF flush2 THEN <<>> ELSE cb1,
                        !.results = IF flush2 THEN res1 \o cb1 ELSE res1,
                        !.blocks = IF flush2 THEN Append(blk1, cb1) ELSE blk1]
    ELSE r0

\* One iteration of the while loop: read_line keeps the terminator in line,
\* and fails on bytes that are not UTF-8 before line_number is advanced.
reader_line(r, b, m, c) ==
    LET end == line_end(b, r.pos)
        line == SubSeq(b, r.pos + 1, end)
        r1 == [r EXCEPT !.pos = end]
    IN  IF ~valid_utf8(line)
        THEN [r1 EXCEPT !.err = TRUE]
        ELSE reader_aggregate([r1 EXCEPT !.line_number = @ + 1],
                              <<r.line_number + 1, line, create_matcher(m, line)>>, c)

\* The printing after the loop.
reader_final(r) ==
    IF r.context_buffer # <<>>
    THEN [r EXCEPT !.results = @ \o r.context_buffer,
                   !.blocks = Append(@, r.context_buffer)]
    ELSE r

--------------------------------------------------------------------------
(* search_file_mmap *)

chunk_size(len, threads) == len \div (IF threads > 1 THEN threads ELSE 1)

\* <[T]>::par_chunks(size): consecutive slices of size bytes, the last one
\* shorter when size does not divide the length.  size = 0 panics.
par_chunks(b, size) ==
    LET n == (Len(b) + size - 1) \div size
    IN  [k \in 1..n |-> SubSeq(b, (k - 1) * size + 1, Min(k * size, Len(b)))]

\* A merge in the order the workers finished in.
collect_in_completion_order(res, order) ==
    Flatten([i \in 1..Len(order) |-> res[order[i]]])

\* collect() keeps the order of the chunks whatever order they finished in;
\* into_iter().flatten().collect() then concatenates.
collect_flatten(res, order) == Flatten(res)

--------------------------------------------------------------------------
(* main *)

\* total_matches += file_matches.len()
tally(total, file_matches) == total + Len(file_matches)

--------------------------------------------------------------------------
(* Inputs *)

IsolatedExample ==
    <<"a", LF, "M", "A", "T", "C", "H", LF, "b", LF, "c", LF, "d", LF>>

AdjacentExample ==
    <<"x", LF, "M", "A", "T", "C", "H", "1", LF, "M", "A", "T", "C", "H", "2", LF, "y", LF>>

MATCH == <<"M", "A", "T", "C", "H">>

CrLfExample == <<"m", CR, LF, "x", CR, LF>>

\* A line that is not UTF-8 between two matching lines.
BadLineExample == <<"m", LF, BadByte, LF, "m", LF>>

\* The texts of the lines of the line files.
LineTexts == {<<"m">>, <<"x">>, <<>>}

\* The files of exactly n lines, each a text of LineTexts and a LF.
RECURSIVE LineFiles(_)
LineFiles(n) ==
    IF n = 0 THEN {<<>>}
    ELSE {f \o t \o <<LF>> : f \in LineFiles(n - 1), t \in LineTexts}

Inputs ==
    {[buf |-> b, pattern |-> <<"m">>] : b \in AllSeqs(Bytes, MaxLen)}
    \cup {[buf |-> b, pattern |-> <<"m">>] : b \in UNION {LineFiles(n) : n \in 0..MaxLines}}
    \cup {[buf |-> IsolatedExample, pattern |-> MATCH],
          [buf |-> AdjacentExample, pattern |-> MATCH],
          [buf |-> CrLfExample, pattern |-> <<"m">>],
          [buf |-> BadLineExample, pattern |-> <<"m">>]}

Init ==
    /\ \E in \in Inputs :
          /\ buf = in.buf
          /\ matcher = PlainMatcher(in.pattern)
    /\ context_lines \in 0..MaxContext
    /\ scanner = "none"
    /\ pc = "start"
    /\ reader = BufferedInit
    /\ chunks = <<>>
    /\ workers = <<>>
    /\ finished = <<>>
    /\ out = <<>>
    /\ num_threads = 0
    /\ stdin = ReaderInit
    /\ total_matches = 0

--------------------------------------------------------------------------
(* Actions *)

\* search_file, file_size > MAX_MMAP_SIZE: the bytes of the model stand for
\* a file of either kind.
SearchFileBuffered ==
    /\ pc = "start"
    /\ scanner' = "buffered"
    /\ pc' = "scan"
    /\ reader' = BufferedInit
    /\ UNCHANGED <<buf, matcher, context_lines, chunks, workers, finished, out, num_threads, stdin, total_matches>>

BufferedLine ==
    /\ pc = "scan" /\ scanner = "buffered"
    /\ reader.pos < Len(buf)
    /\ reader' = buffered_line(reader, buf, matcher, context_lines)
    /\ pc' = IF reader'.err THEN "error" ELSE "scan"
    /\ UNCHANGED <<buf, matcher, context_lines, scanner, chunks, workers, finished, out, num_threads, stdin, total_matches>>

BufferedEnd ==
    /\ pc = "scan" /\ scanner = "buffered"
    /\ reader.pos = Len(buf)
    /\ reader' = buffered_final(reader)
    /\ out' = reader'.results
    /\ pc' = "done"
    /\ UNCHANGED <<buf, matcher, context_lines, scanner, chunks, workers, finished, num_threads, stdin, total_matches>>

\* search_file, the mmap branch, with rayon::current_num_threads() = threads.
SearchFileMmap(threads) ==
    /\ pc = "start"
    /\ Len(buf) <= MaxMapped
    /\ scanner' = "mmap"
    /\ IF chunk_size(Len(buf), threads) = 0
       THEN /\ pc' = "panic"
            /\ UNCHANGED <<chunks, workers>>
       ELSE /\ Len(par_chunks(buf, chunk_size(Len(buf), threads))) <= MaxChunks
            /\ pc' = "scan"
            /\ chunks' = par_chunks(buf, chunk_size(Len(buf), threads))
            /\ workers' = [k \in 1..Len(chunks') |-> ChunkInit]
    /\ num_threads' = threads
    /\ UNCHANGED <<buf, matcher, context_lines, reader, finished, out, stdin, total_matches>>

ChunkLine(k) ==
    /\ pc = "scan" /\ scanner = "mmap"
    /\ ~workers[k].done
    /\ LFAfter(chunks[k], workers[k].line_start) # {}
    /\ workers' = [workers EXCEPT ![k] = chunk_line(@, chunks[k], matcher, context_lines)]
    /\ UNCHANGED <<buf, matcher, context_lines, scanner, pc, reader, chunks, finished, out, num_threads, stdin, total_matches>>

ChunkEnd(k) ==
    /\ pc = "scan" /\ scanner = "mmap"
    /\ ~workers[k].done
    /\ LFAfter(chunks[k], workers[k].line_start) = {}
    /\ workers' = [workers EXCEPT ![k] = chunk_final(@)]
    /\ finished' = Append(finished, k)
    /\ UNCHANGED <<buf, matcher, context_lines, scanner, pc, reader, chunks, out, num_threads, stdin, total_matches>>

MmapCollect ==
    /\ pc = "scan" /\ scanner = "mmap"
    /\ \A k \in 1..Len(workers) : workers[k].done
    /\ out' = collect_flatten([k \in 1..Len(workers) |-> workers[k].results], finished)
    /\ pc' = "done"
    /\ UNCHANGED <<buf, matcher, context_lines, scanner, reader, chunks, workers, finished, num_threads, stdin, total_matches>>

\* main, path == "-": the bytes are those of standard input.
SearchReader ==
    /\ pc = "start"
    /\ scanner' = "reader"
    /\ pc' = "scan"
    /\ stdin' = ReaderInit
    /\ UNCHANGED <<buf, matcher, context_lines, reader, chunks, workers, finished, out,
                   num_threads, total_matches>>

ReaderLine ==
    /\ pc = "scan" /\ scanner = "reader"
    /\ stdin.pos < Len(buf)
    /\ stdin' = reader_line(stdin, buf, matcher, context_lines)
    /\ pc' = IF stdin'.err THEN "error" ELSE "scan"
    /\ UNCHANGED <<buf, matcher, context_lines, scanner, reader, chunks, workers, finished,
                   out, num_threads, total_matches>>

ReaderEnd ==
    /\ pc = "scan" /\ scanner = "reader"
    /\ stdin.pos = Len(buf)
    /\ stdin' = reader_final(stdin)
    /\ pc' = "done"
    /\ UNCHANGED <<buf, matcher, context_lines, scanner, reader, chunks, workers, finished,
                   out, num_threads, total_matches>>

\* main, after search_file returned Ok: the tally that --count prints.
MainTally ==
    /\ pc = "done" /\ scanner \in {"buffered", "mmap"}
    /\ total_matches' = tally(total_matches, out)
    /\ pc' = "counted"
    /\ UNCHANGED <<buf, matcher, context_lines, scanner, reader, chunks, workers, finished,
                   out, num_threads, stdin>>

Next ==
    \/ SearchFileBuffered
    \/ BufferedLine
    \/ BufferedEnd
    \/ \E t \in 1..MaxThreads : SearchFileMmap(t)
    \/ \E k \in 1..Len(workers) : ChunkLine(k)
    \/ \E k \in 1..Len(workers) : ChunkEnd(k)
    \/ MmapCollect
    \/ SearchReader
    \/ ReaderLine
    \/ ReaderEnd
    \/ MainTally

Spec == Init /\ [][Next]_vars

\* The same scanners under every combination of the flags of create_matcher,
\* on short inputs in both cases of the letters.
MatcherBytes == {"m", "M", "x", LF}

MatcherPatterns == {<<"m">>, <<"M">>, <<"x", "m">>}

InitMatcher ==
    /\ buf \in AllSeqs(MatcherBytes, MaxMatcherLen)
    /\ matcher \in [pattern : MatcherPatterns, use_regex : BOOLEAN, ignore_case : BOOLEAN,
                     word_regexp : BOOLEAN, fixed_strings : BOOLEAN, invert_match : BOOLEAN]
    /\ context_lines = 0
    /\ scanner = "none"
    /\ pc = "start"
    /\ reader = BufferedInit
    /\ chunks = <<>>
    /\ workers = <<>>
    /\ finished = <<>>
    /\ out = <<>>
    /\ num_threads = 0
    /\ stdin = ReaderInit
    /\ total_matches = 0

SpecMatcher == InitMatcher /\ [][Next]_vars

--------------------------------------------------------------------------
(* Vocabulary of the properties *)

\* The lines of a whole file: the text before each LF, and the text after
\* the last LF when there is some.
RECURSIVE SplitLines(_)
SplitLines(b) ==
    IF b = <<>> THEN <<>>
    ELSE IF LFAfter(b, 0) = {} THEN <<b>>
    ELSE LET i == SetMin(LFAfter(b, 0))
         IN  <<SubSeq(b, 1, i - 1)>> \o SplitLines(SubSeq(b, i + 1, Len(b)))

\* One Segmenter -> Matcher -> Aggregator pipeline: the reader's, or a chunk's.
View(a, ended) ==
    [fed |-> a.fed, results |-> a.results, blocks |-> a.blocks,
     context_buffer |-> a.context_buffer, ended |-> ended]

Pipelines ==
    (IF scanner = "buffered" /\ pc # "error"
     THEN {View(reader, pc \in {"done", "counted"})} ELSE {})
    \cup (IF scanner = "reader" /\ pc # "error" THEN {View(stdin, pc = "done")} ELSE {})
    \cup {View(workers[k], workers[k].done) : k \in 1..Len(workers)}

Occurrences(seq, x) == Cardinality({i \in 1..Len(seq) : seq[i] = x})

Increasing(recs) == \A i, j \in 1..Len(recs) : i < j => recs[i][1] < recs[j][1]

Matches(recs) == {i \in 1..Len(recs) : recs[i][3]}

InBlock(blk, x) == \E i \in 1..Len(blk) : blk[i] = x

Abs(n) == IF n < 0 THEN -n ELSE n

MmapDone == scanner = "mmap" /\ pc = "done"
BufferedDone == scanner = "buffered" /\ pc = "done"

--------------------------------------------------------------------------
(* Properties *)

\* C1: what search_file_mmap returns for a file, with any number of threads,
\* is what search_file_buffered returns for the same file, matcher and
\* context size (the files search_file_buffered fails on set aside).
C1_SequentialParallelSame ==
    MmapDone /\ search_file_buffered(buf, matcher, context_lines).ok =>
        out = search_file_buffered(buf, matcher, context_lines).results

\* C2: every record search_file_mmap returns carries the 1-based number its
\* line has in the whole file, and the numbers of the records returned are
\* strictly increasing.
C2_GlobalLineNumbers ==
    MmapDone =>
        /\ \A i \in 1..Len(out) :
              /\ out[i][1] \in 1..Len(SplitLines(buf))
              /\ SplitLines(buf)[out[i][1]] = out[i][2]
        /\ Increasing(out)

\* C3: when a pipeline has ended, every matching line it was fed is in its
\* results exactly once (with matched = true).
C3_NoMatchLost ==
    \A p \in Pipelines : p.ended =>
        \A k \in Matches(p.fed) : Occurrences(p.results, p.fed[k]) = 1

\* C4: a file whose only match is line i, with at least contextSize lines
\* before and after it, gives one block: lines i - contextSize to
\* i + contextSize.  For a, MATCH, b, c, d and contextSize 1: lines 1 to 3.
C4_IsolatedMatch ==
    BufferedDone =>
        /\ \A i \in 1..Len(reader.fed) :
              /\ Matches(reader.fed) = {i}
              /\ i > context_lines
              /\ i + context_lines <= Len(reader.fed)
              => /\ out = SubSeq(reader.fed, i - context_lines, i + context_lines)
                 /\ reader.blocks = <<out>>
        /\ buf = IsolatedExample /\ context_lines = 1
              => out = << <<1, <<"a">>, FALSE>>, <<2, MATCH, TRUE>>, <<3, <<"b">>, FALSE>> >>

\* C5: two matching lines fewer than 2*contextSize+1 lines apart are flushed
\* in the same block.
C5_NearMatchesMerged ==
    \A p \in Pipelines : p.ended =>
        \A i, j \in Matches(p.fed) :
            i < j /\ p.fed[j][1] - p.fed[i][1] < 2 * context_lines + 1
            => \E n \in 1..Len(p.blocks) :
                  InBlock(p.blocks[n], p.fed[i]) /\ InBlock(p.blocks[n], p.fed[j])

\* C6: x, MATCH1, MATCH2, y with contextSize 1 gives the single block of
\* lines 1 to 4.
C6_AdjacentExample ==
    BufferedDone /\ buf = AdjacentExample /\ context_lines = 1 =>
        reader.blocks = << << <<1, <<"x">>, FALSE>>,
                              <<2, MATCH \o <<"1">>, TRUE>>,
                              <<3, MATCH \o <<"2">>, TRUE>>,
                              <<4, <<"y">>, FALSE>> >> >>

\* C7: with contextSize 0, after every line: every block flushed so far is
\* one matching record, nothing is held in the context buffer, and the
\* results are exactly the matching lines fed so far.
C7_ZeroContext ==
    context_lines = 0 =>
        \A p \in Pipelines :
            /\ \A n \in 1..Len(p.blocks) : Len(p.blocks[n]) = 1 /\ p.blocks[n][1][3]
            /\ p.context_buffer = <<>>
            /\ p.results = SelectSeq(p.fed, LAMBDA r : r[3])

C7_Witness ==
    /\ context_lines = 0
    /\ \E p \in Pipelines :
          /\ Len(p.blocks) >= 2
          /\ \E k \in 1..Len(p.fed) : ~p.fed[k][3]
          /\ p.ended

\* C8: every non-matching record of the results is at most contextSize lines
\* away from a matching line of the input.
C8_ContextWithinReach ==
    \A p \in Pipelines :
        \A i \in 1..Len(p.results) :
            ~p.results[i][3] =>
                \E k \in Matches(p.fed) : Abs(p.fed[k][1] - p.results[i][1]) <= context_lines

\* C9: the chunks concatenate to the file, and every chunk starts at the
\* start of the file or right after a LF and ends at the end of the file or
\* with a LF.
ChunkStart(k) == Len(Flatten(SubSeq(chunks, 1, k - 1)))

C9_ChunksLineAligned ==
    scanner = "mmap" /\ pc \in {"scan", "done"} =>
        /\ Flatten(chunks) = buf
        /\ \A k \in 1..Len(chunks) :
              /\ ChunkStart(k) = 0 \/ buf[ChunkStart(k)] = LF
              /\ ChunkStart(k) + Len(chunks[k]) = Len(buf)
                    \/ buf[ChunkStart(k) + Len(chunks[k])] = LF

\* C10: what search_file_mmap returns is the results of search_chunk on chunk
\* 0, then on chunk 1, and so on, each in increasing line order, whatever
\* order the workers finished in.
C10_MergedByChunkOrdinal ==
    MmapDone =>
        /\ out = Flatten([k \in 1..Len(chunks) |->
                            search_chunk(chunks[k], matcher, context_lines)])
        /\ \A k \in 1..Len(chunks) :
              Increasing(search_chunk(chunks[k], matcher, context_lines))

\* The second chunk finished before the first, and their results differ.
C10_Witness ==
    /\ MmapDone
    /\ finished = <<2, 1>>
    /\ workers[1].results # <<>>
    /\ workers[2].results # <<>>
    /\ workers[1].results # workers[2].results

--------------------------------------------------------------------------
(* Properties of the whole scan, the matcher, the count and the buffer *)

Last(seq) == seq[Len(seq)]

\* The text after the last LF of b.
TrailingLine(b) ==
    IF LFAfter(b, 0) = {} THEN b
    ELSE SubSeq(b, (CHOOSE j \in LFAfter(b, 0) : \A i \in LFAfter(b, 0) : i <= j) + 1, Len(b))

NoLineMatches ==
    \A i \in 1..Len(SplitLines(buf)) : ~create_matcher(matcher, SplitLines(buf)[i])

\* C11: a scan of a source none of whose lines matches never fails or
\* panics, and ends with nothing returned or printed.
C11_NoMatchEmptyOutput ==
    NoLineMatches =>
        /\ pc \notin {"panic", "error"}
        /\ pc \in {"done", "counted"} => out = <<>> /\ stdin.results = <<>>

\* C12: no scanner fails on a line that is not valid UTF-8; the line is not
\* fed to the matcher, and the line counter of a chunk is one more than the
\* number of terminators passed.
C12_UndecodableLineDropped ==
    /\ pc # "error"
    /\ \A p \in Pipelines : \A i \in 1..Len(p.fed) : valid_utf8(p.fed[i][2])
    /\ \A k \in 1..Len(workers) :
          workers[k].line_number =
              1 + Cardinality({j \in 1..workers[k].line_start : chunks[k][j] = LF})

\* C13: when the file ends with a non-empty line without terminator that
\* decodes and matches, the last record returned is that line, matched.
C13_TrailingLineEmitted ==
    /\ pc = "done" /\ scanner \in {"buffered", "mmap"}
    /\ TrailingLine(buf) # <<>>
    /\ valid_utf8(TrailingLine(buf))
    /\ create_matcher(matcher, TrailingLine(buf))
    => /\ out # <<>>
       /\ Last(out)[2] = TrailingLine(buf)
       /\ Last(out)[3]

\* C14: on every line a scanner has fed to the predicate, the predicate is
\* the negation of the predicate built from the same arguments with
\* invert_match negated.
C14_InvertIsNegation ==
    \A p \in Pipelines : \A i \in 1..Len(p.fed) :
        p.fed[i][3] = ~create_matcher([matcher EXCEPT !.invert_match = ~@], p.fed[i][2])

\* An inverted, case-insensitive predicate for "m" that rejected the line "M"
\* and selected another line.
C14_Witness ==
    /\ matcher.invert_match /\ matcher.ignore_case
    /\ matcher.pattern = <<"m">>
    /\ \E p \in Pipelines :
          /\ p.ended
          /\ \E i, j \in 1..Len(p.fed) :
                p.fed[i][2] = <<"M">> /\ ~p.fed[i][3] /\ p.fed[j][3]

\* C15: the count main holds after a file is the number of records of the
\* result whose matched flag is true.
C15_CountIsMatchedRecords ==
    pc = "counted" => total_matches = Len(SelectSeq(out, LAMBDA r : r[3]))

\* C16: after every line, in every scanner, the context buffer holds at most
\* 2*contextSize+1 records.
C16_BufferBounded ==
    \A p \in Pipelines : Len(p.context_buffer) <= 2 * context_lines + 1

\* search_reader with a full buffer of 5 records.
C16_Witness ==
    /\ scanner = "reader"
    /\ context_lines = 2
    /\ Len(stdin.context_buffer) = 2 * context_lines + 1

\* C17: search_file_mmap hands out as many chunks as there are threads.
C17_OneChunkPerThread ==
    scanner = "mmap" /\ pc \in {"scan", "done", "counted"} => Len(chunks) = num_threads

\* C18: the records a pipeline has emitted have strictly increasing line
\* numbers.
C18_StrictlyIncreasing ==
    \A p \in Pipelines : Increasing(p.results)

\* Three matches with overlapping windows, emitted in more than one block.
C18_Witness ==
    /\ context_lines >= 1
    /\ \E p \in Pipelines :
          /\ p.ended
          /\ Len(p.blocks) >= 2
          /\ Cardinality(Matches(p.results)) >= 3

--------------------------------------------------------------------------
(* The three copies of the context buffer *)

Core(a) ==
    [context_buffer |-> a.context_buffer, results |-> a.results, blocks |-> a.blocks]

AggInit ==
    [pos |-> 0, line_number |-> 0, line_start |-> 0, context_buffer |-> <<>>,
     results |-> <<>>, blocks |-> <<>>, fed |-> <<>>, err |-> FALSE, done |-> FALSE]

Front(seq) == SubSeq(seq, 1, Len(seq) - 1)

RECURSIVE FeedBuffered(_, _)
FeedBuffered(recs, c) ==
    IF recs = <<>> THEN AggInit
    ELSE buffered_aggregate(FeedBuffered(Front(recs), c), Last(recs), c)

RECURSIVE FeedChunk(_, _)
FeedChunk(recs, c) ==
    IF recs = <<>> THEN AggInit
    ELSE chunk_aggregate(FeedChunk(Front(recs), c), Last(recs), c)

RECURSIVE FeedReader(_, _)
FeedReader(recs, c) ==
    IF recs = <<>> THEN AggInit
    ELSE reader_aggregate(FeedReader(Front(recs), c), Last(recs), c)

\* C19: on the records any pipeline has been fed so far, the three copies
\* hold the same buffer and have emitted the same blocks, which are those of
\* the pipeline; and so after the flush at the end of the input.
C19_CopiesEquivalent ==
    \A p \in Pipelines :
        LET b == FeedBuffered(p.fed, context_lines)
            k == FeedChunk(p.fed, context_lines)
            r == FeedReader(p.fed, context_lines)
        IN  /\ Core(b) = Core(k)
            /\ Core(k) = Core(r)
            /\ Core(buffered_final(b)) = Core(chunk_final(k))
            /\ Core(chunk_final(k)) = Core(reader_final(r))
            /\ Core(p) = IF p.ended THEN Core(reader_final(r)) ELSE Core(r)

\* search_reader after a flush on overflow and the flush at the end of the
\* input.
C19_Witness ==
    /\ context_lines = 1
    /\ scanner = "reader" /\ pc = "done"
    /\ Len(stdin.blocks) >= 2
    /\ stdin.context_buffer # <<>>
    /\ \E n \in 1..Len(stdin.blocks) : ~stdin.blocks[n][1][3]

\* What the next record, matching or not, would do to a full buffer.
Probe(t) == <<0, <<>>, t>>

OverflowFlushes(before, after, rec) ==
    Len(before.context_buffer) = 2 * context_lines + 1 =>
        /\ Head(before.context_buffer)[3]
        /\ after.context_buffer = <<>>
        /\ after.blocks = Append(before.blocks, Tail(before.context_buffer) \o <<rec>>)

\* C20: between lines, a non-empty context buffer starts with a match; and
\* when the buffer is full, the next record removes that match and the rest
\* of the buffer is flushed and cleared in the same step.
C20_OldestIsMatch ==
    /\ \A p \in Pipelines : p.context_buffer # <<>> => Head(p.context_buffer)[3]
    /\ \A t \in BOOLEAN :
          /\ scanner = "buffered" /\ pc = "scan" =>
                OverflowFlushes(reader,
                    buffered_aggregate(reader, Probe(t), context_lines), Probe(t))
          /\ scanner = "reader" /\ pc = "scan" =>
                OverflowFlushes(stdin,
                    reader_aggregate(stdin, Probe(t), context_lines), Probe(t))
          /\ \A k \in 1..Len(workers) : ~workers[k].done =>
                OverflowFlushes(workers[k],
                    chunk_aggregate(workers[k], Probe(t), context_lines), Probe(t))

\* A block that starts with a line that did not match: the flush of an
\* overflow.
C20_Witness ==
    \E p \in Pipelines : \E n \in 1..Len(p.blocks) : ~p.blocks[n][1][3]

====
